---- MODULE Spec2Model ----
(***************************************************************************)
(* Model of trajectory.cpp: the low-thrust spiral transfer integrator.     *)
(*                                                                         *)
(* A double is modelled as an integer on a grid of one unit, together with *)
(* the three IEEE 754 special values +inf, -inf and NaN.  Results beyond   *)
(* DBL_MAX overflow to an infinity, quotients and square roots round       *)
(* toward zero (a magnitude below one unit underflows to 0), and there is  *)
(* a single zero, which is +0.  Sums, differences and products of finite   *)
(* values are exact on the grid.                                           *)
(*                                                                         *)
(* The arithmetic is written as functions, so that an operand is evaluated *)
(* once, before the operation is applied to it.                            *)
(***************************************************************************)
EXTENDS Integers, Sequences, FiniteSets, TLC

\* Largest finite magnitude of the grid.
DBL_MAX == 40000
\* Largest number of loop iterations the model follows.
MaxSteps == 10

PInf == DBL_MAX + 1
NInf == -PInf
NaN == DBL_MAX + 2

\* double: a finite value in -DBL_MAX..DBL_MAX, or PInf, NInf or NaN.
Dbl == Int

Abs(n) == IF n < 0 THEN -n ELSE n
Sgn(n) == IF n < 0 THEN -1 ELSE IF n > 0 THEN 1 ELSE 0

IsInf(a) == a = PInf \/ a = NInf

\* An exact result rounded to the representable range.
Rnd(n) == IF n > DBL_MAX THEN PInf ELSE IF n < -DBL_MAX THEN NInf ELSE n

FNeg[a \in Dbl] == IF a = NaN THEN NaN ELSE -a

FAdd[a \in Dbl, b \in Dbl] ==
    IF a = NaN \/ b = NaN THEN NaN
    ELSE IF IsInf(a) /\ IsInf(b) THEN (IF a = b THEN a ELSE NaN)
    ELSE IF IsInf(a) THEN a
    ELSE IF IsInf(b) THEN b
    ELSE Rnd(a + b)

FSub[a \in Dbl, b \in Dbl] == FAdd[a, FNeg[b]]

FMul[a \in Dbl, b \in Dbl] ==
    IF a = NaN \/ b = NaN THEN NaN
    ELSE IF IsInf(a) \/ IsInf(b)
         THEN (IF a = 0 \/ b = 0 THEN NaN
               ELSE IF Sgn(a) * Sgn(b) > 0 THEN PInf ELSE NInf)
    ELSE Rnd(a * b)

FDiv[a \in Dbl, b \in Dbl] ==
    IF a = NaN \/ b = NaN THEN NaN
    ELSE IF IsInf(a)
         THEN (IF IsInf(b) THEN NaN
               ELSE IF Sgn(a) * (IF b < 0 THEN -1 ELSE 1) > 0 THEN PInf ELSE NInf)
    ELSE IF IsInf(b) THEN 0
    ELSE IF b = 0
         THEN (IF a = 0 THEN NaN ELSE IF a > 0 THEN PInf ELSE NInf)
    ELSE Sgn(a) * Sgn(b) * (Abs(a) \div Abs(b))

\* Largest k with k * k <= n, searched by bisection of lo..hi.
ISqrtIn[n \in Nat, lo \in Nat, hi \in Nat] ==
    IF lo = hi THEN lo
    ELSE LET mid == (lo + hi + 1) \div 2
         IN  IF mid * mid <= n THEN ISqrtIn[n, mid, hi] ELSE ISqrtIn[n, lo, mid - 1]

FSqrt[a \in Dbl] ==
    IF a = NaN \/ a < 0 THEN NaN
    ELSE IF a = PInf THEN PInf
    ELSE ISqrtIn[a, 0, a]

\* std::pow(b, 3)
Pow3[b \in Dbl] == FMul[FMul[b, b], b]

\* a < b and a >= b on doubles: both are false when an operand is NaN.
FLt[a \in Dbl, b \in Dbl] == a # NaN /\ b # NaN /\ a < b
FGe[a \in Dbl, b \in Dbl] == a # NaN /\ b # NaN /\ a >= b

----------------------------------------------------------------------------
\* Vec2 and its operators.

Vec2 == Dbl \X Dbl

VAdd[a \in Vec2, b \in Vec2] == <<FAdd[a[1], b[1]], FAdd[a[2], b[2]]>>

VSub[a \in Vec2, b \in Vec2] == <<FSub[a[1], b[1]], FSub[a[2], b[2]]>>

\* k * v and v * k
VScale[k \in Dbl, vec \in Vec2] == <<FMul[k, vec[1]], FMul[k, vec[2]]>>

NoError == "none"
DivisionByZero == "Vector division by zero!"

\* operator/ without its test of k: the quotient is formed whatever k is.
divideUnchecked(vec, k) ==
    [err |-> NoError, val |-> <<FDiv[vec[1], k], FDiv[vec[2], k]>>]

\* operator/(v, k): the result is a thrown error or a vector.
divide(vec, k) ==
    IF k = 0
    THEN [err |-> DivisionByZero, val |-> <<>>]
    ELSE [err |-> NoError, val |-> <<FDiv[vec[1], k], FDiv[vec[2], k]>>]

norm[vec \in Vec2] == FSqrt[FAdd[FMul[vec[1], vec[1]], FMul[vec[2], vec[2]]]]

----------------------------------------------------------------------------
\* main(): the parameters, drawn once, and the state of the run.

VARIABLES mu, r_earth, r_mars, T, Isp, m0, mdot, dt,
          m, t, r, v, x, y, out, pc,
          div_v, div_k, div_ret

params == <<mu, r_earth, r_mars, T, Isp, m0, mdot, dt>>
state == <<m, t, r, v, x, y>>
frame == <<div_v, div_k, div_ret>>
vars == <<params, state, out, pc, frame>>

\* Standard gravity and the seconds of a year, in grid units.
g == 1
SecondsPerYear == 2

\* Values the parameters are drawn from.  The source sets each as a literal
\* that is edited per thruster, and r_mars as 1.52 * r_earth; here the target
\* is drawn on its own, so that it may lie inside, at or outside r_earth.
MuValues == {1, 2, 8, 12}
RadiusValues == {1, 2}
TargetValues == {1, 2, 5, 7, 9}
ThrustValues == {2, 4}
IspValues == {1, 2, 4, 8}
MassValues == {1, 4}
StepValues == {1, 2}

Idle == [err |-> NoError, val |-> <<>>]

Params ==
    /\ mu \in MuValues
    /\ r_earth \in RadiusValues
    /\ r_mars \in TargetValues
    /\ T \in ThrustValues
    /\ Isp \in IspValues
    /\ m0 \in MassValues
    /\ dt \in StepValues
    /\ mdot = FDiv[T, FMul[Isp, g]]

Start ==
    /\ m = m0
    /\ t = 0
    /\ r = <<r_earth, 0>>
    /\ v = <<0, FSqrt[FDiv[mu, r_earth]]>>
    /\ x = <<r[1]>>
    /\ y = <<r[2]>>
    /\ out = <<>>

Init ==
    /\ Params
    /\ Start
    /\ pc = "loop"
    /\ div_v = <<0, 0>>
    /\ div_k = 0
    /\ div_ret = Idle

\* The loop condition written with <= for <.
GuardLe == LET n == norm[r] IN n # NaN /\ n <= r_mars

\* The loop condition written with != for <.
GuardNe == LET n == norm[r] IN n # NaN /\ n # r_mars

\* The loop condition with a test for exhausted mass added.
GuardMass == FLt[norm[r], r_mars] /\ m > 0

\* The loop condition norm(r) < r_mars.
Guard == FLt[norm[r], r_mars]

a_grav == VScale[FDiv[FNeg[mu], Pow3[norm[r]]], r]

\* The thrust direction v / norm(v), which may throw.
Direction == divide(v, norm[v])

a_thrust == VScale[FDiv[T, m], Direction.val]

a == VAdd[a_grav, a_thrust]

StepV == VAdd[v, VScale[dt, a]]

\* The position advanced with the velocity from before the step (explicit Euler).
StepRExplicit == VAdd[r, VScale[dt, v]]

StepR == VAdd[r, VScale[dt, StepV]]

\* The mass update with a floor at zero.
StepMClamped ==
    LET left == FSub[m, FMul[mdot, dt]] IN IF left < 0 THEN 0 ELSE left

StepM == FSub[m, FMul[mdot, dt]]

\* The four lines printed after the loop.
Summary ==
    << <<"Reached Mars: ", IF FGe[norm[r], r_mars] THEN "Yes" ELSE "No">>,
       <<"Final radius: ", norm[r]>>,
       <<"Final mass: ", m>>,
       <<"Travel time: ", FDiv[t, SecondsPerYear]>> >>

\* The loop body with the position recorded before it is advanced.
StepStaleSample ==
    /\ pc = "loop"
    /\ FLt[norm[r], r_mars]
    /\ Len(x) <= MaxSteps
    /\ divide(v, norm[v]).err = NoError
    /\ v' = StepV
    /\ r' = StepR
    /\ m' = StepM
    /\ t' = FAdd[t, dt]
    /\ x' = Append(x, r[1])
    /\ y' = Append(y, r[2])
    /\ div_v' = v
    /\ div_k' = norm[v]
    /\ div_ret' = divide(v, norm[v])
    /\ UNCHANGED <<params, out, pc>>

\* One iteration of the loop body that runs to its end.
Step ==
    /\ pc = "loop"
    /\ Guard
    /\ Len(x) <= MaxSteps
    /\ Direction.err = NoError
    /\ v' = StepV
    /\ r' = StepR
    /\ m' = StepM
    /\ t' = FAdd[t, dt]
    /\ x' = Append(x, r'[1])
    /\ y' = Append(y, r'[2])
    /\ div_v' = v
    /\ div_k' = norm[v]
    /\ div_ret' = Direction
    /\ UNCHANGED <<params, out, pc>>

\* The exception caught in main and the results printed all the same.
ThrowCaught ==
    /\ pc = "loop"
    /\ FLt[norm[r], r_mars]
    /\ divide(v, norm[v]).err # NoError
    /\ out' = Summary
    /\ pc' = "done"
    /\ div_v' = v
    /\ div_k' = norm[v]
    /\ div_ret' = divide(v, norm[v])
    /\ UNCHANGED <<params, state>>

\* An iteration in which operator/ throws: the exception leaves main uncaught.
Throw ==
    /\ pc = "loop"
    /\ Guard
    /\ Direction.err # NoError
    /\ pc' = "aborted"
    /\ div_v' = v
    /\ div_k' = norm[v]
    /\ div_ret' = Direction
    /\ UNCHANGED <<params, state, out>>

\* The loop condition is false: the loop ends and the results are printed.
Finish ==
    /\ pc = "loop"
    /\ ~Guard
    /\ out' = Summary
    /\ pc' = "done"
    /\ UNCHANGED <<params, state, frame>>

Next == Step \/ Throw \/ Finish

Spec == Init /\ [][Next]_vars

\* main runs to its end without waiting on anything.
FairSpec == Spec /\ WF_vars(Next)

----------------------------------------------------------------------------
\* operator/ on its own: one call on arguments drawn from TestValues.

TestValues == {NInf, -7, -2, 0, 1, 3, PInf, NaN}

InitDiv ==
    /\ mu = 1 /\ r_earth = 1 /\ r_mars = 2 /\ T = 2 /\ Isp = 1 /\ m0 = 1 /\ dt = 1
    /\ mdot = FDiv[T, FMul[Isp, g]]
    /\ Start
    /\ div_v \in TestValues \X TestValues
    /\ div_k \in TestValues
    /\ div_ret = Idle
    /\ pc = "call"

CallDivide ==
    /\ pc = "call"
    /\ div_ret' = divide(div_v, div_k)
    /\ pc' = "returned"
    /\ UNCHANGED <<params, state, out, div_v, div_k>>

NextDiv == CallDivide

SpecDiv == InitDiv /\ [][NextDiv]_vars

----------------------------------------------------------------------------
\* Notions the properties below share.

\* The radius of the i-th recorded sample.
SampleRadius(i) == norm[<<x[i], y[i]>>]

\* The step just taken was a completed loop iteration.
Stepped == t' # t

----------------------------------------------------------------------------
\* C1: once the loop has ended the radius is at least the target radius and
\* the printed "reached" flag is "Yes"; and every step was taken from a
\* position whose radius was below the target (every sample but the last is
\* a position a step was taken from).
C1_TerminatedReached ==
    /\ pc = "done" =>
          /\ FGe[norm[r], r_mars]
          /\ out[1] = <<"Reached Mars: ", "Yes">>
    /\ \A i \in 1..(Len(x) - 1) : FLt[SampleRadius(i), r_mars]

\* C2 as stated: with the target radius at or inside the initial radius the
\* loop never ends.
C2_NeverTerminates == (r_mars <= r_earth) => pc # "done"

\* C2 amended: with the target radius at or inside the initial radius no
\* step is taken at all: the loop condition is false the first time it is
\* evaluated and the run ends at once, with the initial sample alone, no
\* time elapsed and the flag "Yes".
C2_EndsAtOnce ==
    /\ [](r_mars <= r_earth =>
            /\ pc \in {"loop", "done"}
            /\ t = 0 /\ m = m0 /\ x = <<r_earth>> /\ y = <<0>>
            /\ div_ret = Idle)
    /\ (r_mars <= r_earth) =>
            <>(pc = "done" /\ out[1] = <<"Reached Mars: ", "Yes">>)

C2_Witness ==
    /\ r_mars <= r_earth
    /\ pc = "done"
    /\ Len(x) = 1
    /\ out[1] = <<"Reached Mars: ", "Yes">>

\* C3: a call of operator/ with k == 0 ends in the DivisionByZero error and
\* yields no vector; with any other k it ends without error and yields the
\* componentwise quotient.
C3_Divide ==
    pc = "returned" =>
        IF div_k = 0
        THEN div_ret.err = DivisionByZero /\ div_ret.val = <<>>
        ELSE /\ div_ret.err = NoError
             /\ div_ret.val = <<FDiv[div_v[1], div_k], FDiv[div_v[2], div_k]>>

C3_Witness ==
    /\ pc = "returned"
    /\ div_v = <<3, -7>>
    /\ \/ div_k = 0 /\ div_ret.err = DivisionByZero
       \/ div_k = -2 /\ div_ret.val = <<-1, 3>>

\* C4: the samples start as the initial position alone, hold one entry more
\* than the number of completed steps, end with the current position, and
\* change only by a completed step appending the new position.
C4_Samples ==
    /\ [](/\ Len(x) = Len(y)
          /\ Len(x) = (t \div dt) + 1
          /\ <<x[1], y[1]>> = <<r_earth, 0>>
          /\ <<x[Len(x)], y[Len(y)]>> = r)
    /\ [][IF Stepped
          THEN x' = x \o <<r'[1]>> /\ y' = y \o <<r'[2]>> /\ t' = t + dt
          ELSE x' = x /\ y' = y]_vars

C4_Witness ==
    /\ Len(x) = 4
    /\ t = 3 * dt
    /\ <<x[4], y[4]>> = r
    /\ r # <<r_earth, 0>>

Outward ==
    (pc = "loop" /\ FLt[norm[r], r_mars]) =>
        /\ norm[v] # 0
        /\ FLt[norm[r], norm[StepR]]

C7_OutputArtifact ==
    pc = "done" =>
        \E k \in 1..Len(out) :
            /\ out[k][1] = "x,y"
            /\ \A i \in 1..Len(x) :
                  /\ k + i <= Len(out)
                  /\ out[k + i][1] = "row"
                  /\ out[k + i][2] = <<x[i], y[i]>>

\* C8: a completed step sets the velocity to v + a * dt with a computed from
\* the position, velocity and mass before the step, and the position to
\* r + v' * dt with the velocity after the update.
C8_SemiImplicit ==
    [][Stepped =>
          LET c == FDiv[FNeg[mu], Pow3[norm[r]]]
              k == FDiv[T, m]
              u == <<FDiv[v[1], norm[v]], FDiv[v[2], norm[v]]>>
              acc == <<FAdd[FMul[c, r[1]], FMul[k, u[1]]],
                       FAdd[FMul[c, r[2]], FMul[k, u[2]]]>>
          IN  /\ v' = <<FAdd[v[1], FMul[acc[1], dt]], FAdd[v[2], FMul[acc[2], dt]]>>
              /\ r' = <<FAdd[r[1], FMul[v'[1], dt]], FAdd[r[2], FMul[v'[2], dt]]>>]_vars

\* After the first step the position differs from what the velocity before
\* the step would have given.
C8_Witness ==
    /\ t = dt
    /\ Len(x) = 2
    /\ r = <<FAdd[r_earth, FMul[v[1], dt]], FMul[v[2], dt]>>
    /\ r # <<r_earth, FMul[FSqrt[FDiv[mu, r_earth]], dt]>>

\* C9: an iteration begun with a velocity of norm zero aborts the run and
\* changes neither position, velocity, mass, time, samples nor output; an
\* aborted run takes no further step.
C9_AbortNoUpdate ==
    [][/\ pc # "aborted"
       /\ (pc = "loop" /\ FLt[norm[r], r_mars] /\ norm[v] = 0)
             => /\ pc' = "aborted"
                /\ div_ret'.err = DivisionByZero
                /\ UNCHANGED <<r, v, m, t, x, y, out>>
                /\ out = <<>>]_vars

\* An abort in the middle of a run.
C9_Witness ==
    /\ pc = "aborted"
    /\ t > 0
    /\ norm[v] = 0
    /\ out = <<>>

====
